---- MODULE Spec2Model ----
(***************************************************************************)
(* Model of the pull-request webhook bot of src/main.py: the Flask handler *)
(* webhook() and the helpers it drives (verify_signature,                  *)
(* get_installation_access_token, notify_stakeholders,                     *)
(* run_deployment_script, run_cleanup_script, send_email).                 *)
(*                                                                         *)
(* One worker handles one delivery at a time.  Every external collaborator *)
(* (GitHub token endpoint, GitHub comment endpoint, deploy.sh, cleanup.sh, *)
(* the SMTP relay) answers nondeterministically.  Every call the handler   *)
(* makes to the outside is appended to calls[w]; the HTTP responses it     *)
(* produces are appended to resp[w].                                       *)
(***************************************************************************)
EXTENDS Integers, Sequences, FiniteSets, TLC

\* ------------------------------------------------------------------ bounds
\* Deliveries the server handles in one behaviour.
MaxDeliveries == 2

\* Workers of the HTTP server.  Spec drives one of them.
Workers == {"w1", "w2"}
SeqWorkers == {"w1"}

\* ------------------------------------------------------------- input sets
PRNumbers == {42, 43}
Branches == {"feature-x"}
Repos == {"org/app", "org/lib"}
Installations == {7}

\* The action field of the payload; "None" is data.get('action') of a payload
\* that has no action key.
ActionNames == <<"opened", "synchronize", "reopened", "closed", "labeled", "None">>
DeployActions == {"opened", "synchronize", "reopened"}
CleanupActions == {"closed"}

\* The keys the handler reads under a pull_request payload, in the order
\* lines 89-92 read them; "none" says that none is missing.
FieldNames == <<"none", "number", "repository", "head", "installation">>

None == <<>>

Range(s) == {s[i] : i \in DOMAIN s}
IndexOf(s, x) == CHOOSE i \in DOMAIN s : s[i] = x

\* ------------------------------------------------------------ wire format
\* A payload is the JSON object of the delivery.  has_pr: the pull_request
\* key is present; missing: which of the keys read by the handler is absent.
Payloads ==
    { [action |-> a, has_pr |-> FALSE, missing |-> "none",
       number |-> 42, ref |-> "feature-x", full_name |-> "org/app", installation |-> 7,
       merged |-> FALSE]
        : a \in Range(ActionNames) }
    \cup
    { [action |-> a, has_pr |-> TRUE, missing |-> m,
       number |-> 42, ref |-> "feature-x", full_name |-> "org/app", installation |-> 7,
       merged |-> FALSE]
        : a \in Range(ActionNames), m \in Range(FieldNames) \ {"none"} }
    \cup
    { [action |-> a, has_pr |-> TRUE, missing |-> "none",
       number |-> n, ref |-> b, full_name |-> "org/app", installation |-> i,
       merged |-> FALSE]
        : a \in Range(ActionNames), n \in PRNumbers, b \in Branches,
          i \in Installations }
    \cup
    { [action |-> a, has_pr |-> TRUE, missing |-> "none",
       number |-> 42, ref |-> b, full_name |-> r, installation |-> i, merged |-> m]
        : a \in {"closed"}, b \in Branches, r \in Repos,
          i \in Installations, m \in BOOLEAN }
    \cup
    { [action |-> "opened", has_pr |-> TRUE, missing |-> "none",
       number |-> 42, ref |-> b, full_name |-> r, installation |-> i,
       merged |-> FALSE]
        : b \in Branches, r \in Repos, i \in Installations }

\* The payloads of the deliveries two workers handle at the same time:
\* complete pull-request events that open or close pull request 42, from
\* either repository, merged or not.
ConcPayloads ==
    { p \in Payloads :
        /\ p.has_pr /\ p.missing = "none"
        /\ p.action \in {"opened", "closed"}
        /\ p.number = 42 }

BranchList == <<"feature-x">>
RepoList == <<"org/app", "org/lib">>

\* request.data: the raw bytes of the body (one byte per field).
JsonDumps(p) ==
    << IndexOf(ActionNames, p.action),
       IF p.has_pr THEN 1 ELSE 0,
       IndexOf(FieldNames, p.missing),
       p.number,
       IndexOf(BranchList, p.ref),
       IndexOf(RepoList, p.full_name),
       p.installation,
       IF p.merged THEN 1 ELSE 0 >>

\* request.json: the object parsed from the raw bytes.
JsonLoads(d) ==
    [action |-> ActionNames[d[1]],
     has_pr |-> (d[2] = 1),
     missing |-> FieldNames[d[3]],
     number |-> d[4],
     ref |-> BranchList[d[5]],
     full_name |-> RepoList[d[6]],
     installation |-> d[7],
     merged |-> (d[8] = 1)]

\* --------------------------------------------------------------- HMAC
\* WEBHOOK_SECRET.encode()
WEBHOOK_SECRET == <<107, 51, 121>>

RECURSIVE Absorb(_, _, _)
\* A 16-bit keyed digest standing in for HMAC-SHA256: every byte of the key
\* and then of the message is absorbed into the running value.
Absorb(h, bytes, i) ==
    IF i > Len(bytes) THEN h
    ELSE Absorb((h * 33 + bytes[i] + i) % 65536, bytes, i + 1)

HmacDigest(key, msg) == Absorb(Absorb(5381, key, 1), msg, 1)

HexChar(d) == IF d < 10 THEN 48 + d ELSE 87 + d

\* mac.hexdigest(): lower-case hex, most significant digit first.
HexDigest(h) ==
    << HexChar((h \div 4096) % 16), HexChar((h \div 256) % 16),
       HexChar((h \div 16) % 16), HexChar(h % 16) >>

\* 'sha256='
Sha256Prefix == <<115, 104, 97, 50, 53, 54, 61>>

ExpectedSignature(data) == Sha256Prefix \o HexDigest(HmacDigest(WEBHOOK_SECRET, data))

IsAscii(s) == \A i \in DOMAIN s : s[i] < 128

\* hmac.compare_digest on two str: TypeError unless both are ASCII.
CompareDigest(a, b) ==
    IF ~(IsAscii(a) /\ IsAscii(b)) THEN "TypeError"
    ELSE IF a = b THEN "True" ELSE "False"

\* verify_signature(payload, signature); signature is the header, absent
\* (None) or a string.
verify_signature(payload, signature) ==
    IF ~signature.present \/ signature.value = <<>> THEN "False"
    ELSE CompareDigest(ExpectedSignature(payload), signature.value)

\* ------------------------------------------------------- signature inputs
NoHeader == [present |-> FALSE, value |-> <<>>]
Header(v) == [present |-> TRUE, value |-> v]

\* One character of s replaced.
Replace(s, i, c) == [s EXCEPT ![i] = c]

\* The body a tampering sender signed instead of the one it sends.
OtherBody(data) == Replace(data, 1, (data[1] % Len(ActionNames)) + 1)

\* The X-Hub-Signature-256 headers a delivery with raw body data may carry.
SignatureHeaders(data) ==
    LET good == ExpectedSignature(data) IN
    { NoHeader,
      Header(<<>>),
      Header(good),
      Header(ExpectedSignature(OtherBody(data))),
      Header(HexDigest(HmacDigest(WEBHOOK_SECRET, data))),
      Header(Replace(good, Len(good), IF good[Len(good)] = 48 THEN 49 ELSE 48)),
      Header(Replace(good, 1, good[1] + 128)) }

\* ------------------------------------------------------------------ state
VARIABLES
    pc,        \* pc[w]: where worker w stands in webhook()
    req,       \* req[w]: the request: raw body and signature header
    loc,       \* loc[w]: the handler's local variables
    calls,     \* calls[w]: the external calls made for the request, in order
    resp,      \* resp[w]: the HTTP responses produced for the request
    files,     \* the log files under /tmp
    served,    \* deliveries accepted so far
    issued     \* installation tokens issued so far by the token endpoint

vars == <<pc, req, loc, calls, resp, files, served, issued>>

Kinds == {"deployment", "cleanup"}
\* f'/tmp/{kind}_log_{branch_name}_{pr_number}.txt'
LogPath(kind, branch_name, pr_number) == <<kind, branch_name, pr_number>>
LogPaths == { LogPath(k, b, n) : k \in Kinds, b \in Branches, n \in PRNumbers }

NoFile == [exists |-> FALSE, content |-> <<>>]

NoRequest == [data |-> <<>>, signature |-> NoHeader]

InitLocals ==
    [data |-> None, access_token |-> 0, comment_url |-> None,
     log_file_path |-> None, log_file_open |-> FALSE,
     exit |-> "", stdout |-> <<>>,
     container_name |-> None, deployment_url |-> None,
     details |-> <<>>, exc |-> "", exc_in |-> ""]

Init ==
    /\ pc = [w \in Workers |-> "idle"]
    /\ req = [w \in Workers |-> NoRequest]
    /\ loc = [w \in Workers |-> InitLocals]
    /\ calls = [w \in Workers |-> <<>>]
    /\ resp = [w \in Workers |-> <<>>]
    /\ files = [p \in LogPaths |-> NoFile]
    /\ served = 0
    /\ issued = 0

\* ------------------------------------------------------------- responses
Response(status, message) == [status |-> status, message |-> message]

\* An exception that leaves webhook(): Flask answers with its own 500 page.
UnhandledException == Response(500, "Internal Server Error")

\* jsonify(...) returned by webhook(): the one response of the request.
Respond(w, r) ==
    /\ resp' = [resp EXCEPT ![w] = Append(@, r)]
    /\ pc' = [pc EXCEPT ![w] = "done"]

\* --------------------------------------------------------------- delivery
\* The platform POSTs a delivery to /webhook and the worker picks it up.
Accept(w, data, signature) ==
    /\ pc[w] \in {"idle", "done"}
    /\ served < MaxDeliveries
    /\ req' = [req EXCEPT ![w] = [data |-> data, signature |-> signature]]
    /\ served' = served + 1
    /\ pc' = [pc EXCEPT ![w] = "verify"]
    /\ loc' = [loc EXCEPT ![w] = InitLocals]
    /\ calls' = [calls EXCEPT ![w] = <<>>]
    /\ resp' = [resp EXCEPT ![w] = <<>>]
    /\ UNCHANGED <<files, issued>>

\* A delivery with any payload and any signature header.
Deliver(w) ==
    \E p \in Payloads :
        \E h \in SignatureHeaders(JsonDumps(p)) : Accept(w, JsonDumps(p), h)

\* A validly signed delivery of a complete pull-request event, handled by a
\* thread of its own.
DeliverSigned(w) ==
    /\ pc[w] = "idle"
    /\ \E p \in ConcPayloads :
         Accept(w, JsonDumps(p), Header(ExpectedSignature(JsonDumps(p))))

\* webhook(), lines 82-84.
VerifyStep(w) ==
    /\ pc[w] = "verify"
    /\ LET ok == verify_signature(req[w].data, req[w].signature) IN
         CASE ok = "TypeError" ->
                /\ Respond(w, UnhandledException)
                /\ loc' = [loc EXCEPT ![w].exc = "TypeError", ![w].exc_in = "verify"]
           [] ok = "False" ->
                /\ Respond(w, Response(401, "Invalid signature"))
                /\ UNCHANGED loc
           [] OTHER ->
                /\ pc' = [pc EXCEPT ![w] = "classify"]
                /\ UNCHANGED <<resp, loc>>
    /\ UNCHANGED <<req, calls, files, served, issued>>

\* DeployFirstStep with the deploy action run before anything else.
DeployFirstStepIsAction == "deploy_open"

\* webhook(), line 97: the first statement of the Deploy path.
DeployFirstStep == "deploy_token"

\* IsCleanupEvent running the cleanup only for merged pull requests.
IsCleanupEventIfMerged(data) == data.action \in CleanupActions /\ data.merged

\* webhook(), line 121: elif action == 'closed'.
IsCleanupEvent(data) == data.action \in CleanupActions

\* webhook(), lines 86-94, 121 and 139: parse, read the fields, dispatch.
ClassifyStep(w) ==
    /\ pc[w] = "classify"
    /\ LET data == JsonLoads(req[w].data) IN
         IF ~data.has_pr
         THEN /\ Respond(w, Response(200, "No action taken"))
              /\ loc' = [loc EXCEPT ![w].data = data]
         ELSE IF data.missing # "none"
         THEN /\ Respond(w, UnhandledException)
              /\ loc' = [loc EXCEPT ![w].data = data, ![w].exc = "KeyError",
                                    ![w].exc_in = "classify"]
         ELSE IF data.action \in DeployActions
         THEN /\ pc' = [pc EXCEPT ![w] = DeployFirstStep]
              /\ loc' = [loc EXCEPT ![w].data = data]
              /\ UNCHANGED resp
         ELSE IF IsCleanupEvent(data)
         THEN /\ pc' = [pc EXCEPT ![w] = "cleanup_open"]
              /\ loc' = [loc EXCEPT ![w].data = data]
              /\ UNCHANGED resp
         ELSE /\ Respond(w, Response(200, "No action taken"))
              /\ loc' = [loc EXCEPT ![w].data = data]
    /\ UNCHANGED <<req, calls, files, served, issued>>

\* ------------------------------------------------------ external calls
\* One entry of calls[w].  kind: token_exchange, comment, action or email;
\* what: the comment's message, the script or the mail's subject; token: the
\* token presented or obtained; result: what the collaborator answered;
\* data: the link of a comment, the output of a script, the attachment of a
\* mail; details: the step table appended to a comment.
CallRecord(kind, what, token, result, data, details) ==
    [kind |-> kind, what |-> what, token |-> token, result |-> result,
     data |-> data, details |-> details]

\* What the token endpoint may answer (requests.post, raise_for_status).
TokenOutcomes == {"ok", "http_error", "connection_error"}

\* What the comment endpoint may answer: 201, another status with a JSON
\* body, another status with a body that is no JSON, or no answer at all.
CommentOutcomes == {"201", "non201_json", "non201_not_json", "connection_error"}

\* What the SMTP relay may do.
MailOutcomes == {"sent", "smtp_error"}

\* notify_stakeholders: the exception it raises for an answer, "" for none.
\* response.json() in the log line raises on a body that is no JSON.
NotifyException(outcome) ==
    CASE outcome = "connection_error" -> "ConnectionError"
      [] outcome = "non201_not_json" -> "JSONDecodeError"
      [] OTHER -> ""

\* notify_stakeholders(comment_url, message, access_token, details): the
\* call it makes.
notify_stakeholders(message, link, token, details, outcome) ==
    CallRecord("comment", message, token, outcome, link, details)

\* TokenException without response.raise_for_status(): an HTTP error status
\* raises nothing.
TokenExceptionUnchecked(outcome) ==
    IF outcome = "connection_error" THEN "ConnectionError" ELSE ""

\* get_installation_access_token: the exception it raises, "" for none.
TokenException(outcome) ==
    CASE outcome = "http_error" -> "HTTPError"
      [] outcome = "connection_error" -> "ConnectionError"
      [] OTHER -> ""

\* ExceptMessage with the Deploy path's message in both except clauses.
ExceptMessageCopied(path) == "Deployment failed"

\* The message of the generic 500 of an except clause of webhook().
ExceptMessage(path) ==
    IF path = "deploy" THEN "Deployment failed" ELSE "Cleanup failed"

\* except Exception of the Deploy path (117-119) or the Cleanup path (135-137).
ExceptResponse(path) == Response(500, ExceptMessage(path))

\* The exception e raised in the try block of path is caught, and answered.
Caught(w, e, path, l) ==
    /\ Respond(w, ExceptResponse(path))
    /\ loc' = [loc EXCEPT ![w] = [l EXCEPT !.exc = e, !.exc_in = path]]

Call(w, cs) == calls' = [calls EXCEPT ![w] = @ \o cs]

\* ------------------------------------------------------------ deploy path
\* AccessToken read from one place shared by all requests: the token issued
\* last.
AccessTokenIssuedLast(l) == issued

\* webhook(), lines 101, 108, 110, 127: the access_token argument is the
\* local variable of this call of webhook().
AccessToken(l) == l.access_token

\* webhook(), line 97: get_installation_access_token(installation_id).
DeployTokenStep(w) ==
    /\ pc[w] = "deploy_token"
    /\ \E o \in TokenOutcomes :
         LET tok == IF o = "ok" THEN issued + 1 ELSE 0 IN
         /\ Call(w, <<CallRecord("token_exchange", "access_tokens", tok, o, None, <<>>)>>)
         /\ IF TokenException(o) # ""
            THEN /\ Caught(w, TokenException(o), "deploy", loc[w])
                 /\ UNCHANGED issued
            ELSE /\ issued' = issued + 1
                 /\ loc' = [loc EXCEPT ![w].access_token = tok]
                 /\ pc' = [pc EXCEPT ![w] = "deploy_notify"]
                 /\ UNCHANGED resp
    /\ UNCHANGED <<req, files, served>>

StartMessage == "Deployment started for this pull request."
SuccessMessage == "Deployment successful. [Deployed application]({deployment_link})."
FailureMessage == "Deployment failed. Please check the logs."
CleanupMessage == "Cleanup completed for this pull request."

\* f"https://api.github.com/repos/{repo_name}/issues/{pr_number}/comments"
CommentUrl(data) == <<data.full_name, data.number>>

\* webhook(), lines 98-101: the "Deployment started" comment.
DeployNotifyStep(w) ==
    /\ pc[w] = "deploy_notify"
    /\ \E o \in CommentOutcomes :
         LET l == [loc[w] EXCEPT !.comment_url = CommentUrl(loc[w].data)] IN
         /\ Call(w, <<notify_stakeholders(StartMessage, None, AccessToken(l), <<>>, o)>>)
         /\ IF NotifyException(o) # ""
            THEN Caught(w, NotifyException(o), "deploy", l)
            ELSE /\ loc' = [loc EXCEPT ![w] = l]
                 /\ pc' = [pc EXCEPT ![w] = "deploy_open"]
                 /\ UNCHANGED resp
    /\ UNCHANGED <<req, files, served, issued>>

\* --------------------------------------------------------- action runner
\* A chunk written to a log file.
Chunk(text, data) == [text |-> text, data |-> data]

\* open(log_file_path, 'w'): the file exists and is empty.
OpenForWriting(fs, path) == [fs EXCEPT ![path] = [exists |-> TRUE, content |-> <<>>]]

\* What the file holds beyond the end of a write made at offset 0: nothing,
\* or the end of what was there, when that was longer than what is written.
Remainders(fs, path) == {<<>>, fs[path].content}

\* log_file.write(...), and the output of cleanup.sh sent to the handle: the
\* handle's own offset is 0 after open(..., 'w'), so the output replaces the
\* beginning of the file and rest stays behind it.
WriteLog(fs, path, chunks, rest) ==
    [fs EXCEPT ![path].content = chunks \o rest]

\* Lines a deploy.sh may print.  A line is a label followed by the
\* white-space separated tokens after it; a token is <<scheme, rest>>.
Line(label, tokens) == [label |-> label, tokens |-> tokens]
ContainerLine == Line("Container name: ", << <<"", "app-42">> >>)
UrlLine == Line("Deployment complete: ", << <<"http://", "host:8042">> >>)
HttpsLine == Line("Deployment complete: ", << <<"https://", "host:8042">> >>)
OtherLine == Line("Building image", <<>>)

DeployOutputs ==
    { <<ContainerLine, UrlLine>>, <<ContainerLine>>, <<UrlLine>>,
      <<OtherLine>>, <<ContainerLine, HttpsLine>> }

\* How a run of the external action may end: exit status 0 with its output,
\* a non-zero exit status (CalledProcessError), or no run at all (OSError).
DeployRuns ==
    { [exit |-> "0", stdout |-> out] : out \in DeployOutputs }
    \cup { [exit |-> "1", stdout |-> <<OtherLine>>] }
    \cup { [exit |-> "oserror", stdout |-> <<>>] }

CleanupRuns ==
    { [exit |-> "0", stdout |-> <<OtherLine>>],
      [exit |-> "1", stdout |-> <<OtherLine>>],
      [exit |-> "oserror", stdout |-> <<>>] }

RECURSIVE Search(_, _, _, _)
\* re.search(label + '(' + scheme + '[^\s]+)', stdout).group(1), None
\* without a match: the first token after the label that starts with scheme
\* and goes on with at least one character.
Search(stdout, label, scheme, i) ==
    IF i > Len(stdout) THEN None
    ELSE IF /\ stdout[i].label = label
            /\ stdout[i].tokens # <<>>
            /\ stdout[i].tokens[1][1] = scheme
            /\ stdout[i].tokens[1][2] # ""
         THEN stdout[i].tokens[1]
         ELSE Search(stdout, label, scheme, i + 1)

\* One entry of the StepReport (details[step] = {status, message}).
Step(step, status, message, args) ==
    [step |-> step, status |-> status, message |-> message, args |-> args]

\* DeploySuccessDetails with the last step reported from what was extracted.
DeploySuccessDetailsFromUrl(branch_name, container_name, deployment_url) ==
    << [step |-> "Clone repository", status |-> "Success",
        message |-> "Repository cloned successfully.", args |-> <<>>],
       [step |-> "Checkout branch", status |-> "Success",
        message |-> "Checked out branch {branch_name}.", args |-> <<branch_name>>],
       [step |-> "Pull latest changes", status |-> "Success",
        message |-> "Pulled latest changes for branch {branch_name}.",
        args |-> <<branch_name>>],
       [step |-> "Build Docker image", status |-> "Success",
        message |-> "Docker image built successfully for container {container_name}.",
        args |-> <<container_name>>],
       [step |-> "Run Docker container",
        status |-> IF deployment_url = <<>> THEN "Failed" ELSE "Success",
        message |-> "Container {container_name} running at {deployment_url}.",
        args |-> <<container_name, deployment_url>>] >>

\* run_deployment_script, lines 171-175.
DeploySuccessDetails(branch_name, container_name, deployment_url) ==
    << Step("Clone repository", "Success", "Repository cloned successfully.", <<>>),
       Step("Checkout branch", "Success", "Checked out branch {branch_name}.",
            <<branch_name>>),
       Step("Pull latest changes", "Success",
            "Pulled latest changes for branch {branch_name}.", <<branch_name>>),
       Step("Build Docker image", "Success",
            "Docker image built successfully for container {container_name}.",
            <<container_name>>),
       Step("Run Docker container", "Success",
            "Container {container_name} running at {deployment_url}.",
            <<container_name, deployment_url>>) >>

\* run_deployment_script, line 183.
DeployFailureDetails == << Step("Deployment script", "Failed", "{e.stderr}", <<>>) >>

\* The names bound at module level of main.py.
ModuleNames ==
    {"app", "logger", "WEBHOOK_SECRET", "APP_ID", "PRIVATE_KEY_PATH", "SMTP_SERVER",
     "SMTP_PORT", "SMTP_USERNAME", "SMTP_PASSWORD", "RECIPIENT_EMAIL", "private_key",
     "key_file", "verify_signature", "get_jwt_token", "get_installation_access_token",
     "webhook", "notify_stakeholders", "run_deployment_script", "run_cleanup_script",
     "send_email", "subprocess", "requests", "re", "jwt", "time", "os", "hmac",
     "hashlib", "logging", "smtplib"}

\* The parameters and locals of run_deployment_script.
RunDeploymentNames ==
    {"branch_name", "pr_number", "log_file_path", "details", "log_file", "result",
     "container_name_match", "deployment_url_match", "container_name",
     "deployment_url", "e"}

\* The parameters and locals of run_cleanup_script.
RunCleanupNames ==
    {"branch_name", "pr_number", "log_file_path", "details", "log_file", "e"}

\* Evaluating the names in a function whose own names are scope: NameError
\* for a name bound neither there nor at module level, "" otherwise.
NameLookup(names, scope) ==
    IF names \subseteq (scope \cup ModuleNames) THEN "" ELSE "NameError"

\* run_deployment_script, lines 157-159: open(log_file_path, 'w').
DeployOpenStep(w) ==
    /\ pc[w] = "deploy_open"
    /\ LET path == LogPath("deployment", loc[w].data.ref, loc[w].data.number) IN
         /\ files' = OpenForWriting(files, path)
         /\ loc' = [loc EXCEPT ![w].log_file_path = path, ![w].log_file_open = TRUE]
    /\ pc' = [pc EXCEPT ![w] = "deploy_run"]
    /\ UNCHANGED <<req, calls, resp, served, issued>>

\* run_deployment_script, lines 161-169 and 180-182: run deploy.sh, write
\* the log, extract the container name and the URL.
DeployRunStep(w) ==
    /\ pc[w] = "deploy_run"
    /\ \E run \in DeployRuns, rest \in Remainders(files, loc[w].log_file_path) :
         /\ Call(w, <<CallRecord("action", "./deploy.sh", 0, run.exit, run.stdout, <<>>)>>)
         /\ CASE run.exit = "0" ->
                  /\ files' = WriteLog(files, loc[w].log_file_path,
                                       <<Chunk("{result.stdout}", run.stdout)>>, rest)
                  /\ loc' = [loc EXCEPT
                               ![w].exit = "0", ![w].stdout = run.stdout,
                               ![w].container_name =
                                   Search(run.stdout, "Container name: ", "", 1),
                               ![w].deployment_url =
                                   Search(run.stdout, "Deployment complete: ", "http://", 1)]
                  /\ pc' = [pc EXCEPT ![w] = "deploy_report"]
              [] run.exit = "1" ->
                  /\ files' = WriteLog(files, loc[w].log_file_path,
                                <<Chunk("Deployment script failed with error: {e.stderr}",
                                        <<>>)>>, rest)
                  /\ loc' = [loc EXCEPT ![w].exit = "1"]
                  /\ pc' = [pc EXCEPT ![w] = "deploy_report"]
              [] OTHER ->
                  \* not a CalledProcessError: it leaves the function
                  /\ loc' = [loc EXCEPT ![w].exc = "OSError", ![w].exc_in = "deploy",
                                        ![w].log_file_open = FALSE]
                  /\ pc' = [pc EXCEPT ![w] = "deploy_result"]
                  /\ UNCHANGED files
    /\ UNCHANGED <<req, resp, served, issued>>

\* run_deployment_script, lines 171-178 and 183-185: build the StepReport,
\* post it, return.  The names comment_url and access_token are looked up in
\* run_deployment_script.
DeployReportStep(w) ==
    /\ pc[w] = "deploy_report"
    /\ LET l == [loc[w] EXCEPT
                   !.details =
                      IF loc[w].exit = "0"
                      THEN DeploySuccessDetails(loc[w].data.ref, loc[w].container_name,
                                                loc[w].deployment_url)
                      ELSE DeployFailureDetails,
                   !.log_file_open = FALSE]
           lookup == NameLookup({"notify_stakeholders", "comment_url", "access_token",
                                 "details"}, RunDeploymentNames)
       IN
         IF lookup # ""
         THEN /\ loc' = [loc EXCEPT ![w] = [l EXCEPT !.exc = lookup, !.exc_in = "deploy",
                                              !.container_name = None,
                                              !.deployment_url = None]]
              /\ UNCHANGED calls
         ELSE \E o \in CommentOutcomes :
              /\ Call(w, <<notify_stakeholders("Deployment process details:", None,
                                               l.access_token, l.details, o)>>)
              /\ loc' = [loc EXCEPT ![w] =
                           IF NotifyException(o) # ""
                           THEN [l EXCEPT !.exc = NotifyException(o), !.exc_in = "deploy",
                                          !.container_name = None, !.deployment_url = None]
                           ELSE l]
    /\ pc' = [pc EXCEPT ![w] = "deploy_result"]
    /\ UNCHANGED <<req, resp, files, served, issued>>

\* send_email(to_address, subject, body, attachment_path): the call it makes
\* and the exception it raises ("" for none).  The attachment is read from
\* the file as it is now.
send_email(fs, subject, attachment_path, outcome) ==
    IF ~fs[attachment_path].exists
    THEN [call |-> <<>>, exc |-> "FileNotFoundError"]
    ELSE [call |-> <<CallRecord("email", subject, 0, outcome,
                                fs[attachment_path].content, <<>>)>>,
          exc |-> IF outcome = "sent" THEN "" ELSE "SMTPException"]

\* webhook(), lines 104-119: after run_deployment_script has returned or
\* raised: the final comment, the mail, the response.
DeployResultStep(w) ==
    /\ pc[w] = "deploy_result"
    /\ IF loc[w].exc # ""
       THEN /\ Caught(w, loc[w].exc, "deploy", loc[w])
            /\ UNCHANGED calls
       ELSE \E o \in CommentOutcomes, m \in MailOutcomes :
            LET deployment_link == loc[w].deployment_url
                comment ==
                    IF deployment_link # None
                    THEN notify_stakeholders(SuccessMessage, deployment_link,
                                             AccessToken(loc[w]), <<>>, o)
                    ELSE notify_stakeholders(FailureMessage, None,
                                             AccessToken(loc[w]), <<>>, o)
                mail == send_email(files, "Deployment Log", loc[w].log_file_path, m)
            IN
              IF NotifyException(o) # ""
              THEN /\ Call(w, <<comment>>)
                   /\ Caught(w, NotifyException(o), "deploy", loc[w])
              ELSE IF mail.exc # ""
              THEN /\ Call(w, <<comment>> \o mail.call)
                   /\ Caught(w, mail.exc, "deploy", loc[w])
              ELSE /\ Call(w, <<comment>> \o mail.call)
                   /\ Respond(w, Response(200, "Deployment processed"))
                   /\ UNCHANGED loc
    /\ UNCHANGED <<req, files, served, issued>>

\* ----------------------------------------------------------- cleanup path
\* run_cleanup_script, lines 194 and 200.
CleanupDetails(exit) ==
    IF exit = "0"
    THEN << Step("Cleanup script", "Success", "Cleanup script executed successfully.", <<>>) >>
    ELSE << Step("Cleanup script", "Failed", "{e.stderr}", <<>>) >>

\* CleanupOpenStep with the token exchange of line 127 made before
\* run_cleanup_script is called.
CleanupOpenStepAfterToken(w) ==
    /\ pc[w] = "cleanup_open"
    /\ LET path == LogPath("cleanup", loc[w].data.ref, loc[w].data.number) IN
         /\ files' = [files EXCEPT ![path] = [exists |-> TRUE, content |-> <<>>]]
         /\ loc' = [loc EXCEPT ![w].log_file_path = path, ![w].log_file_open = TRUE,
                               ![w].access_token = issued + 1]
    /\ calls' = [calls EXCEPT ![w] =
                    Append(@, [kind |-> "token_exchange", what |-> "access_tokens",
                               token |-> issued + 1, result |-> "ok",
                               data |-> <<>>, details |-> <<>>])]
    /\ issued' = issued + 1
    /\ pc' = [pc EXCEPT ![w] = "cleanup_run"]
    /\ UNCHANGED <<req, resp, served>>

\* run_cleanup_script, lines 188-190: open(log_file_path, 'w').
CleanupOpenStep(w) ==
    /\ pc[w] = "cleanup_open"
    /\ LET path == LogPath("cleanup", loc[w].data.ref, loc[w].data.number) IN
         /\ files' = OpenForWriting(files, path)
         /\ loc' = [loc EXCEPT ![w].log_file_path = path, ![w].log_file_open = TRUE]
    /\ pc' = [pc EXCEPT ![w] = "cleanup_run"]
    /\ UNCHANGED <<req, calls, resp, served, issued>>

\* run_cleanup_script, lines 192-193 and 197-199: run cleanup.sh with its
\* output sent to the log file.
CleanupRunStep(w) ==
    /\ pc[w] = "cleanup_run"
    /\ \E run \in CleanupRuns, rest \in Remainders(files, loc[w].log_file_path) :
         LET output == Chunk("{cleanup.sh output}", run.stdout) IN
         /\ Call(w, <<CallRecord("action", "./cleanup.sh", 0, run.exit, run.stdout, <<>>)>>)
         /\ CASE run.exit = "0" ->
                  /\ files' = WriteLog(files, loc[w].log_file_path, <<output>>, rest)
                  /\ loc' = [loc EXCEPT ![w].exit = "0"]
                  /\ pc' = [pc EXCEPT ![w] = "cleanup_report"]
              [] run.exit = "1" ->
                  /\ files' = WriteLog(files, loc[w].log_file_path,
                                <<output,
                                  Chunk("Cleanup script failed with error: {e.stderr}",
                                        <<>>)>>, rest)
                  /\ loc' = [loc EXCEPT ![w].exit = "1"]
                  /\ pc' = [pc EXCEPT ![w] = "cleanup_report"]
              [] OTHER ->
                  /\ loc' = [loc EXCEPT ![w].exc = "OSError", ![w].exc_in = "cleanup",
                                        ![w].log_file_open = FALSE]
                  /\ pc' = [pc EXCEPT ![w] = "cleanup_result"]
                  /\ UNCHANGED files
    /\ UNCHANGED <<req, resp, served, issued>>

\* run_cleanup_script, lines 194-196 and 200-202: build the StepReport, post
\* it, return.  The names comment_url and access_token are looked up in
\* run_cleanup_script.
CleanupReportStep(w) ==
    /\ pc[w] = "cleanup_report"
    /\ LET l == [loc[w] EXCEPT !.details = CleanupDetails(loc[w].exit),
                               !.log_file_open = FALSE]
           lookup == NameLookup({"notify_stakeholders", "comment_url", "access_token",
                                 "details"}, RunCleanupNames)
       IN
         IF lookup # ""
         THEN /\ loc' = [loc EXCEPT ![w] = [l EXCEPT !.exc = lookup, !.exc_in = "cleanup"]]
              /\ UNCHANGED calls
         ELSE \E o \in CommentOutcomes :
              /\ Call(w, <<notify_stakeholders("Cleanup process details:", None,
                                               l.access_token, l.details, o)>>)
              /\ loc' = [loc EXCEPT ![w] =
                           IF NotifyException(o) # ""
                           THEN [l EXCEPT !.exc = NotifyException(o), !.exc_in = "cleanup"]
                           ELSE l]
    /\ pc' = [pc EXCEPT ![w] = "cleanup_result"]
    /\ UNCHANGED <<req, resp, files, served, issued>>

\* webhook(), lines 124-137: after run_cleanup_script has returned or
\* raised: the token, the comment, the mail, the response.
CleanupResultStep(w) ==
    /\ pc[w] = "cleanup_result"
    /\ IF loc[w].exc # ""
       THEN /\ Caught(w, loc[w].exc, "cleanup", loc[w])
            /\ UNCHANGED <<calls, issued>>
       ELSE \E t \in TokenOutcomes, o \in CommentOutcomes, m \in MailOutcomes :
            LET tok == IF t = "ok" THEN issued + 1 ELSE 0
                exchange == CallRecord("token_exchange", "access_tokens", tok, t, None, <<>>)
                l == [loc[w] EXCEPT !.access_token = tok,
                                    !.comment_url = CommentUrl(loc[w].data)]
                comment == notify_stakeholders(CleanupMessage, None, AccessToken(l), <<>>, o)
                mail == send_email(files, "Cleanup Log", loc[w].log_file_path, m)
            IN
              IF TokenException(t) # ""
              THEN /\ Call(w, <<exchange>>)
                   /\ Caught(w, TokenException(t), "cleanup", loc[w])
                   /\ UNCHANGED issued
              ELSE /\ issued' = issued + 1
                   /\ IF NotifyException(o) # ""
                      THEN /\ Call(w, <<exchange, comment>>)
                           /\ Caught(w, NotifyException(o), "cleanup", l)
                      ELSE IF mail.exc # ""
                      THEN /\ Call(w, <<exchange, comment>> \o mail.call)
                           /\ Caught(w, mail.exc, "cleanup", l)
                      ELSE /\ Call(w, <<exchange, comment>> \o mail.call)
                           /\ Respond(w, Response(200, "Cleanup processed"))
                           /\ loc' = [loc EXCEPT ![w] = l]
    /\ UNCHANGED <<req, files, served>>

Next ==
    \E w \in SeqWorkers :
        \/ Deliver(w)
        \/ VerifyStep(w)
        \/ ClassifyStep(w)
        \/ DeployTokenStep(w)
        \/ DeployNotifyStep(w)
        \/ DeployOpenStep(w)
        \/ DeployRunStep(w)
        \/ DeployReportStep(w)
        \/ DeployResultStep(w)
        \/ CleanupOpenStep(w)
        \/ CleanupRunStep(w)
        \/ CleanupReportStep(w)
        \/ CleanupResultStep(w)

Spec == Init /\ [][Next]_vars

\* The threaded server: every worker handles a delivery of its own, and the
\* steps of the workers interleave.
ConcNext ==
    \E w \in Workers :
        \/ DeliverSigned(w)
        \/ VerifyStep(w)
        \/ ClassifyStep(w)
        \/ DeployTokenStep(w)
        \/ DeployNotifyStep(w)
        \/ DeployOpenStep(w)
        \/ DeployRunStep(w)
        \/ DeployReportStep(w)
        \/ DeployResultStep(w)
        \/ CleanupOpenStep(w)
        \/ CleanupRunStep(w)
        \/ CleanupReportStep(w)
        \/ CleanupResultStep(w)

ConcSpec == Init /\ [][ConcNext]_vars

\* ---------------------------------------------------------------- helpers
Done(w) == pc[w] = "done"

\* The header is present and is 'sha256=' followed by the hex digest of the
\* raw body under the shared secret.
SignatureValid(w) ==
    /\ req[w].signature.present
    /\ req[w].signature.value =
           Sha256Prefix \o HexDigest(HmacDigest(WEBHOOK_SECRET, req[w].data))

\* The payload of the request of w.
PayloadOf(w) == CHOOSE p \in Payloads : JsonDumps(p) = req[w].data

RecognizedActions == {"opened", "synchronize", "reopened", "closed"}

\* A validly signed pull-request event with every field the handler reads.
Qualifying(w, actions) ==
    /\ SignatureValid(w)
    /\ PayloadOf(w).has_pr
    /\ PayloadOf(w).missing = "none"
    /\ PayloadOf(w).action \in actions

CallsOfKind(w, kind) == SelectSeq(calls[w], LAMBDA c : c.kind = kind)

\* Every collaborator called for the request so far has succeeded: the token
\* endpoint issued a token, every comment was created, the mail was sent and
\* the action ran to an exit status.
NoCollaboratorFailure(w) ==
    \A i \in DOMAIN calls[w] :
        LET c == calls[w][i] IN
        /\ c.kind = "token_exchange" => c.result = "ok"
        /\ c.kind = "comment" => c.result = "201"
        /\ c.kind = "email" => c.result = "sent"
        /\ c.kind = "action" => c.result \in {"0", "1"}

\* ------------------------------------------------------------------ claims

\* C1: the handler goes past signature verification exactly when the header
\* is present and equals 'sha256=' + hex HMAC of the raw body; every other
\* request is answered 401 'Invalid signature' and makes no external call.
C1_SignatureGate ==
    \A w \in Workers :
        /\ pc[w] \notin {"idle", "verify", "done"} => SignatureValid(w)
        /\ Done(w) /\ SignatureValid(w) => resp[w][1].status # 401
        /\ Done(w) /\ ~SignatureValid(w) =>
              /\ resp[w] = <<Response(401, "Invalid signature")>>
              /\ calls[w] = <<>>

\* C2: a validly signed event without a pull_request key, or with an action
\* other than opened, synchronize, reopened, closed, is answered 200 and
\* makes no external call, whatever else the payload has or lacks.
C2_UnrecognizedIsNoOp ==
    \A w \in Workers :
        ( /\ Done(w)
          /\ SignatureValid(w)
          /\ \/ ~PayloadOf(w).has_pr
             \/ PayloadOf(w).action \notin RecognizedActions )
        => /\ Len(resp[w]) = 1
           /\ resp[w][1].status = 200
           /\ calls[w] = <<>>

\* C3, on validly signed requests: the request ends in exactly one response,
\* which is 200 with a message, 401 'Invalid signature', 500 'Deployment
\* failed' or 500 'Cleanup failed', also when the pull_request payload lacks
\* the number, the head ref, the repository name or the installation id.
C3_ResponseSet ==
    \A w \in Workers :
        Done(w) /\ SignatureValid(w) =>
            /\ Len(resp[w]) = 1
            /\ \/ resp[w][1].status = 200
               \/ resp[w][1] = Response(401, "Invalid signature")
               \/ resp[w][1] = Response(500, "Deployment failed")
               \/ resp[w][1] = Response(500, "Cleanup failed")

\* The deploy action of the request exited 0 and printed a container name
\* and a deployment URL.
DeployedWithBoth(w) ==
    \E i \in DOMAIN calls[w] :
        /\ calls[w][i].kind = "action"
        /\ calls[w][i].result = "0"
        /\ calls[w][i].data = <<ContainerLine, UrlLine>>

\* C4: a validly signed opened, synchronize or reopened event whose token
\* exchange, comments and mail succeed and whose deploy action exits 0
\* printing a container name and a URL has, when the response is produced,
\* posted 'Deployment started', then a success comment with the URL, then
\* sent one 'Deployment Log' mail with the log, and is answered 200
\* 'Deployment processed'.
C4_DeploySucceeds ==
    \A w \in Workers :
        ( /\ Done(w)
          /\ Qualifying(w, DeployActions)
          /\ NoCollaboratorFailure(w)
          /\ DeployedWithBoth(w) )
        => /\ resp[w] = <<Response(200, "Deployment processed")>>
           /\ \E i, j, k \in DOMAIN calls[w] :
                /\ i < j /\ j < k
                /\ calls[w][i].kind = "comment" /\ calls[w][i].what = StartMessage
                /\ calls[w][j].kind = "comment" /\ calls[w][j].what = SuccessMessage
                /\ calls[w][j].data = <<"http://", "host:8042">>
                /\ calls[w][k].kind = "email" /\ calls[w][k].what = "Deployment Log"
                /\ calls[w][k].data # <<>>
           /\ Len(CallsOfKind(w, "email")) = 1

\* C5: a validly signed closed event whose cleanup action, token exchange,
\* comment and mail succeed has, when the response is produced, posted
\* 'Cleanup completed', sent one 'Cleanup Log' mail with the log, and is
\* answered 200 'Cleanup processed'.
C5_CleanupSucceeds ==
    \A w \in Workers :
        ( /\ Done(w)
          /\ Qualifying(w, CleanupActions)
          /\ NoCollaboratorFailure(w)
          /\ \E i \in DOMAIN calls[w] :
                calls[w][i].kind = "action" /\ calls[w][i].result = "0" )
        => /\ resp[w] = <<Response(200, "Cleanup processed")>>
           /\ \E j, k \in DOMAIN calls[w] :
                /\ j < k
                /\ calls[w][j].kind = "comment" /\ calls[w][j].what = CleanupMessage
                /\ calls[w][k].kind = "email" /\ calls[w][k].what = "Cleanup Log"
           /\ Len(CallsOfKind(w, "email")) = 1

\* C6: when the deploy action exits non-zero (and nothing else fails) the
\* failure does not raise out of the action runner: the generic failure
\* notice is posted, the 'Deployment Log' mail is sent with the existing log
\* attached, and the response is not a 500.
C6_DeployFailureReported ==
    \A w \in Workers :
        ( /\ Done(w)
          /\ Qualifying(w, DeployActions)
          /\ NoCollaboratorFailure(w)
          /\ \E i \in DOMAIN calls[w] :
                calls[w][i].kind = "action" /\ calls[w][i].result = "1" )
        => /\ loc[w].exc = ""
           /\ \E j, k \in DOMAIN calls[w] :
                /\ j < k
                /\ calls[w][j].kind = "comment" /\ calls[w][j].what = FailureMessage
                /\ calls[w][k].kind = "email" /\ calls[w][k].what = "Deployment Log"
                /\ calls[w][k].data # <<>>
           /\ files[loc[w].log_file_path].exists
           /\ resp[w][1].status # 500

\* C7: a non-201 answer to a comment never fails the request: the handler
\* goes on as after an accepted comment, so a request never ends on a
\* rejected 'Deployment started' comment without the action being invoked
\* after it.
C7_CommentFailureNonFatal ==
    \A w \in Workers :
        Done(w) =>
            \A i \in DOMAIN calls[w] :
                ( /\ calls[w][i].kind = "comment"
                  /\ calls[w][i].what = StartMessage
                  /\ calls[w][i].result \in {"non201_json", "non201_not_json"} )
                => \E j \in DOMAIN calls[w] : j > i /\ calls[w][j].kind = "action"

\* A call of the request failed in a way that raises in the handler.
RaisingCall(c) ==
    \/ c.kind = "token_exchange" /\ c.result # "ok"
    \/ c.kind = "comment" /\ c.result \in {"connection_error", "non201_not_json"}
    \/ c.kind = "action" /\ c.result = "oserror"
    \/ c.kind = "email" /\ c.result # "sent"

\* A failure was raised inside the try block of the request's path.
RaisedInPath(w) ==
    \/ loc[w].exc_in \in {"deploy", "cleanup"}
    \/ \E i \in DOMAIN calls[w] : RaisingCall(calls[w][i])

\* C8: a failure raised inside the Deploy path is answered 500 'Deployment
\* failed', one raised inside the Cleanup path 500 'Cleanup failed', and
\* what was done before stays done: the comments posted are not withdrawn
\* and the log file the action wrote still exists with its content.
C8_FailuresBecome500 ==
    \A w \in Workers :
        Done(w) /\ RaisedInPath(w) =>
            /\ PayloadOf(w).action \in DeployActions =>
                   resp[w] = <<Response(500, "Deployment failed")>>
            /\ PayloadOf(w).action \in CleanupActions =>
                   resp[w] = <<Response(500, "Cleanup failed")>>
            /\ PayloadOf(w).action \in RecognizedActions
            /\ (\E i \in DOMAIN calls[w] :
                    calls[w][i].kind = "action" /\ calls[w][i].result \in {"0", "1"})
               => /\ files[loc[w].log_file_path].exists
                  /\ files[loc[w].log_file_path].content # <<>>

\* C8's case: a Deploy request in which a failure was raised after a comment
\* was created and the action wrote its log, answered 500.
C8_Witness ==
    \E w \in Workers :
        /\ Done(w)
        /\ RaisedInPath(w)
        /\ PayloadOf(w).action \in DeployActions
        /\ \E i, j \in DOMAIN calls[w] :
              /\ calls[w][i].kind = "comment" /\ calls[w][i].result = "201"
              /\ calls[w][j].kind = "action" /\ calls[w][j].result = "0"
        /\ files[loc[w].log_file_path].content # <<>>
        /\ resp[w] = <<Response(500, "Deployment failed")>>

\* C9: a request in which the deploy or cleanup action was invoked and no
\* comment post failed has posted at least one comment when the response is
\* produced.
C9_AtLeastOneComment ==
    \A w \in Workers :
        ( /\ Done(w)
          /\ \E i \in DOMAIN calls[w] :
                calls[w][i].kind = "action" /\ calls[w][i].result \in {"0", "1"}
          /\ \A i \in DOMAIN calls[w] :
                calls[w][i].kind = "comment" => calls[w][i].result = "201" )
        => \E i \in DOMAIN calls[w] :
                calls[w][i].kind = "comment" /\ calls[w][i].result = "201"

\* C10: a validly signed opened, synchronize, reopened or closed event (with
\* no collaborator failing) has performed exactly one token exchange and
\* exactly one action invocation when the response is produced.
C10_ExactlyOneTokenAndAction ==
    \A w \in Workers :
        ( /\ Done(w)
          /\ Qualifying(w, RecognizedActions)
          /\ NoCollaboratorFailure(w) )
        => /\ Len(CallsOfKind(w, "token_exchange")) = 1
           /\ Len(CallsOfKind(w, "action")) = 1

\* What the outside sees of call c: its kind, its subject and its answer.
Visible(c) == <<c.kind, c.what, c.result, c.data>>

\* The external calls of the request of w, as the outside sees them.
Trace(w) == [i \in DOMAIN calls[w] |-> Visible(calls[w][i])]

\* The collaborators answered the calls of v and w alike, as far as both
\* made them.
SameAnswers(v, w) ==
    \A i \in DOMAIN calls[v] \cap DOMAIN calls[w] :
        /\ calls[v][i].result = calls[w][i].result
        /\ calls[v][i].data = calls[w][i].data

\* The requests of v and w are closed events that differ in
\* pull_request.merged only.
DifferInMergedOnly(v, w) ==
    /\ Qualifying(v, CleanupActions)
    /\ Qualifying(w, CleanupActions)
    /\ PayloadOf(v).merged /\ ~PayloadOf(w).merged
    /\ [PayloadOf(v) EXCEPT !.merged = FALSE] = PayloadOf(w)

\* C11: two closed events that differ only in pull_request.merged, whose
\* collaborators answer alike, have made the same sequence of external calls
\* and got the same HTTP response.
C11_MergedIsIgnored ==
    \A v, w \in Workers :
        ( /\ Done(v) /\ Done(w)
          /\ DifferInMergedOnly(v, w)
          /\ SameAnswers(v, w) )
        => /\ Trace(v) = Trace(w)
           /\ resp[v] = resp[w]

\* C11's case: a merged and an unmerged closed event have both been
\* answered after their cleanup action ran.
C11_Witness ==
    \E v, w \in Workers :
        /\ Done(v) /\ Done(w)
        /\ DifferInMergedOnly(v, w)
        /\ SameAnswers(v, w)
        /\ calls[v] # <<>> /\ calls[v][1].kind = "action" /\ calls[v][1].result = "0"
        /\ calls[w] # <<>>

\* Call i of w is the final outcome comment of the Deploy path.
IsFinalComment(w, i) ==
    /\ calls[w][i].kind = "comment"
    /\ calls[w][i].what \in {SuccessMessage, FailureMessage}

\* C12: in a Deploy-path request the deploy action is invoked only after a
\* token was obtained and the 'Deployment started' comment was attempted,
\* the final outcome comment is posted only after the deploy action has
\* completed, and the log mail is sent only after the final outcome comment
\* was attempted.
C12_DeployOrder ==
    \A w \in Workers :
        \A i \in DOMAIN calls[w] :
            /\ calls[w][i].kind = "action" /\ calls[w][i].what = "./deploy.sh" =>
                  \E j, k \in 1..(i - 1) :
                      /\ j < k
                      /\ calls[w][j].kind = "token_exchange" /\ calls[w][j].result = "ok"
                      /\ calls[w][k].kind = "comment" /\ calls[w][k].what = StartMessage
            /\ IsFinalComment(w, i) =>
                  \E j \in 1..(i - 1) :
                      /\ calls[w][j].kind = "action"
                      /\ calls[w][j].result \in {"0", "1"}
            /\ calls[w][i].kind = "email" /\ calls[w][i].what = "Deployment Log" =>
                  \E j \in 1..(i - 1) : IsFinalComment(w, j)

\* C12's case: the deploy action has been invoked and has completed in a
\* Deploy-path request.
C12_Witness ==
    \E w \in Workers :
        /\ Len(calls[w]) = 3
        /\ calls[w][1].kind = "token_exchange"
        /\ calls[w][2].kind = "comment" /\ calls[w][2].what = StartMessage
        /\ calls[w][3].kind = "action" /\ calls[w][3].what = "./deploy.sh"
        /\ calls[w][3].result = "0"
        /\ pc[w] = "deploy_result"

\* The request of w is a closed event on the Cleanup path.
OnCleanupPath(w) ==
    /\ pc[w] \notin {"idle", "verify", "classify"}
    /\ Qualifying(w, CleanupActions)

\* C13: in a Cleanup-path request the cleanup action is the first external
\* call and has completed before any token exchange, comment or mail: none
\* of them comes before it, and an answered request has invoked it.
C13_CleanupActionFirst ==
    \A w \in Workers :
        OnCleanupPath(w) =>
            /\ calls[w] # <<>> =>
                  /\ calls[w][1].kind = "action"
                  /\ calls[w][1].what = "./cleanup.sh"
            /\ Len(calls[w]) > 1 => calls[w][1].result \in {"0", "1"}
            /\ \A i \in DOMAIN calls[w] :
                  calls[w][i].kind \in {"token_exchange", "comment", "email"} =>
                      \E j \in 1..(i - 1) :
                          /\ calls[w][j].kind = "action"
                          /\ calls[w][j].result \in {"0", "1"}
            /\ Done(w) => calls[w] # <<>>

\* C13's case: a Cleanup-path request has been answered after its cleanup
\* action ran, with no token exchange before it.
C13_Witness ==
    \E w \in Workers :
        /\ OnCleanupPath(w)
        /\ Done(w)
        /\ calls[w] # <<>>
        /\ calls[w][1].kind = "action"
        /\ calls[w][1].result \in {"0", "1"}
        /\ files[loc[w].log_file_path].content # <<>>

\* The first external call of the request of w is a failed token exchange:
\* the Deploy path starts with the exchange.
DeployTokenFailed(w) ==
    /\ calls[w] # <<>>
    /\ calls[w][1].kind = "token_exchange"
    /\ calls[w][1].result # "ok"

\* C14: when the token exchange fails on the Deploy path the flow stops
\* there: no comment, no deploy action, no log file, no mail, and the
\* response is 500 'Deployment failed'.
C14_TokenFailureAborts ==
    \A w \in Workers :
        DeployTokenFailed(w) =>
            /\ Len(calls[w]) = 1
            /\ loc[w].log_file_path = None
            /\ ~loc[w].log_file_open
            /\ Done(w)
            /\ resp[w] = <<Response(500, "Deployment failed")>>

\* C14's case: an opened, synchronize or reopened event whose token
\* exchange was refused has been answered.
C14_Witness ==
    \E w \in Workers :
        /\ DeployTokenFailed(w)
        /\ calls[w][1].result = "http_error"
        /\ Qualifying(w, DeployActions)
        /\ Done(w)

\* C15: the action runner always returns to its caller with the log file
\* path, whatever the exit status of the action and whether or not the step
\* report could be posted: when control is back in webhook() after the
\* action ran, no exception is pending and the log path is known.
C15_RunnerAlwaysReturns ==
    \A w \in Workers :
        ( /\ pc[w] \in {"deploy_result", "cleanup_result"}
          /\ loc[w].exit \in {"0", "1"} )
        => /\ loc[w].exc = ""
           /\ loc[w].log_file_path # None

\* C16: the final Deploy comment reflects the exit status of the action: the
\* generic failure notice exactly when it exited non-zero, a success notice
\* whenever it exited 0, with the extracted URL as its link.
C16_FinalCommentReflectsExit ==
    \A w \in Workers :
        ( /\ Done(w)
          /\ Qualifying(w, DeployActions)
          /\ NoCollaboratorFailure(w) )
        => \A i \in DOMAIN calls[w] :
              /\ calls[w][i].kind = "action" /\ calls[w][i].result = "1" =>
                    \E j \in DOMAIN calls[w] :
                        /\ j > i
                        /\ calls[w][j].kind = "comment"
                        /\ calls[w][j].what = FailureMessage
              /\ calls[w][i].kind = "action" /\ calls[w][i].result = "0" =>
                    \E j \in DOMAIN calls[w] :
                        /\ j > i
                        /\ calls[w][j].kind = "comment"
                        /\ calls[w][j].what = SuccessMessage
                        /\ calls[w][j].data =
                              Search(calls[w][i].data, "Deployment complete: ", "http://", 1)
              /\ calls[w][i].kind = "comment" /\ calls[w][i].what = FailureMessage =>
                    \E j \in 1..(i - 1) :
                        calls[w][j].kind = "action" /\ calls[w][j].result = "1"

\* The deploy action of the request of w has run and its StepReport is built.
DeployReported(w) ==
    /\ pc[w] \in {"deploy_result", "done"}
    /\ loc[w].log_file_path # None
    /\ loc[w].log_file_path[1] = "deployment"
    /\ loc[w].exit \in {"0", "1"}

StepNames(details) == [i \in DOMAIN details |-> details[i].step]

\* C17: the StepReport of a Deploy invocation is determined by the exit
\* status: on exit 0 the five entries clone, checkout, pull, build, run in
\* that order, all Success, whatever the patterns matched; on a non-zero exit
\* one entry, Failed, with the error text, and no container name and no URL.
C17_StepReportByExit ==
    \A w \in Workers :
        DeployReported(w) =>
            /\ loc[w].exit = "0" =>
                  /\ StepNames(loc[w].details) =
                        << "Clone repository", "Checkout branch", "Pull latest changes",
                           "Build Docker image", "Run Docker container" >>
                  /\ \A i \in DOMAIN loc[w].details : loc[w].details[i].status = "Success"
            /\ loc[w].exit = "1" =>
                  /\ Len(loc[w].details) = 1
                  /\ loc[w].details[1].status = "Failed"
                  /\ loc[w].details[1].message = "{e.stderr}"
                  /\ loc[w].container_name = None
                  /\ loc[w].deployment_url = None

\* C17's case: a deploy action that exited 0 printing neither pattern has
\* been reported with five Success entries.
C17_Witness ==
    \E w \in Workers :
        /\ DeployReported(w)
        /\ loc[w].exit = "0"
        /\ loc[w].stdout = <<OtherLine>>
        /\ Len(loc[w].details) = 5

\* Two requests in flight for different repositories whose action kind,
\* branch name and PR number coincide.
SameLogKey(v, w) ==
    /\ v # w
    /\ loc[v].log_file_path # None
    /\ loc[v].log_file_path = loc[w].log_file_path
    /\ loc[v].data.full_name # loc[w].data.full_name

\* The action of the request of w ran to an exit status.
ActionRan(w) ==
    \E i \in DOMAIN calls[w] :
        calls[w][i].kind = "action" /\ calls[w][i].result \in {"0", "1"}

\* C18: two concurrently handled deliveries with the same action kind, branch
\* and PR number share one log file, and each of them mails that file as its
\* log: once both are answered, with no collaborator failing, each has sent
\* one mail whose attachment is read from the shared path.
C18_RacingRequestsMailSharedLog ==
    \A v, w \in Workers :
        ( /\ SameLogKey(v, w)
          /\ Done(v) /\ Done(w)
          /\ ActionRan(v) /\ ActionRan(w)
          /\ NoCollaboratorFailure(v) /\ NoCollaboratorFailure(w) )
        => \E i \in DOMAIN calls[v] : calls[v][i].kind = "email"

\* The part of C18 the program does reach: two requests from different
\* repositories hold the same log file open at once, and the log one of them
\* has written is gone, truncated by the other's open.
C18_Witness ==
    \E v, w \in Workers :
        /\ SameLogKey(v, w)
        /\ loc[v].log_file_open /\ loc[w].log_file_open
        /\ ActionRan(v)
        /\ pc[w] \in {"deploy_run", "cleanup_run"}
        /\ files[loc[v].log_file_path].content = <<>>

\* The tokens obtained by the request of w in flight.
TokensObtained(w) ==
    { calls[w][i].token : i \in { j \in DOMAIN calls[w] :
          calls[w][j].kind = "token_exchange" /\ calls[w][j].result = "ok" } }

\* C19: tokens are never shared.  A request past token acquisition has made
\* its own exchange; a token obtained by one request is obtained by no other;
\* and every comment a request posts carries a token that this request
\* obtained earlier.
C19_TokensNeverShared ==
    /\ \A w \in Workers :
          pc[w] \in {"deploy_notify", "deploy_open", "deploy_run", "deploy_report",
                     "deploy_result"}
          => \E i \in DOMAIN calls[w] : calls[w][i].kind = "token_exchange"
    /\ \A v, w \in Workers : v # w => TokensObtained(v) \cap TokensObtained(w) = {}
    /\ \A w \in Workers : \A i \in DOMAIN calls[w] :
          calls[w][i].kind = "comment" =>
              \E j \in 1..(i - 1) :
                  /\ calls[w][j].kind = "token_exchange"
                  /\ calls[w][j].result = "ok"
                  /\ calls[w][j].token = calls[w][i].token

\* C19's case: two requests in flight at once, the second token issued before
\* the first request posted its comment, and both comments posted.
C19_Witness ==
    \E v, w \in Workers :
        /\ v # w
        /\ pc[v] # "done" /\ pc[w] # "done"
        /\ Len(calls[v]) = 2 /\ Len(calls[w]) = 2
        /\ calls[v][2].kind = "comment" /\ calls[w][2].kind = "comment"
        /\ calls[v][2].token = 1 /\ calls[w][2].token = 2
        /\ issued = 2
====
